---- MODULE Spec2Model ----
(***************************************************************************)
(* A model of PythonBasics/ArithmeticOperation.py: the six arithmetic      *)
(* functions, the conversion of number tokens (_to_floats), the argument   *)
(* parser (parse_args) and the control flow of main, one action per block  *)
(* of main.                                                                *)
(*                                                                         *)
(* Text is modelled as sequences of one-character strings.  A Python float *)
(* is modelled as a record: an exact rational ("fin", n/d in lowest terms, *)
(* d > 0), an infinity ("inf", n the sign), a NaN ("nan"), a finite        *)
(* irrational ("irr", e.g. 2 ** 0.5) or a complex number ("complex",       *)
(* which float.__pow__ returns for a negative base and a fractional        *)
(* exponent).  Finite magnitudes stay small because the number tokens are  *)
(* drawn from NumberTokens; an infinity enters through the literal 1e999.  *)
(***************************************************************************)
EXTENDS Integers, Sequences, FiniteSets, TLC

\* The longest list of number tokens given on the command line or typed at
\* the numbers prompt.
MaxNumbers == 3

VARIABLES
    argv,      \* the command line (a sequence of tokens)
    OP_MAP,    \* the operation registry
    pc,        \* the position of main
    op,        \* main's local op
    nums,      \* main's local nums
    result,    \* main's local result
    out,       \* what was written to standard output, in order
    err,       \* what was written to standard error, in order
    errTok,    \* the token an invalid-number message names
    printed,   \* the result line written to standard output
    call,      \* the record of the operation function's invocation
    signal,    \* the interrupt or end-of-input an input() raised
    exc,       \* the exception that escaped main
    status     \* the exit status of the process

vars == <<argv, OP_MAP, pc, op, nums, result, out, err, errTok, printed, call, signal, exc, status>>

----------------------------------------------------------------------------
\* Text

\* c in s
Contains(s, c) == \E i \in 1..Len(s) : s[i] = c

Digits == {"0", "1", "2", "3", "4", "5", "6", "7", "8", "9"}

DigitVal(c) ==
    CASE c = "0" -> 0 [] c = "1" -> 1 [] c = "2" -> 2 [] c = "3" -> 3
      [] c = "4" -> 4 [] c = "5" -> 5 [] c = "6" -> 6 [] c = "7" -> 7
      [] c = "8" -> 8 [] c = "9" -> 9

\* str.lower, on the letters of the alphabet used here
Lower(s) == [i \in 1..Len(s) |-> IF s[i] = "E" THEN "e" ELSE IF s[i] = "X" THEN "x" ELSE s[i]]

IsSpace(c) == c = " "

\* the index of the first occurrence of one of cs in s, or 0
FirstOf(s, cs) ==
    IF \E i \in 1..Len(s) : s[i] \in cs
    THEN CHOOSE i \in 1..Len(s) : s[i] \in cs /\ \A j \in 1..(i - 1) : s[j] \notin cs
    ELSE 0

\* str.strip()
RECURSIVE LStrip(_)
LStrip(s) == IF s # <<>> /\ IsSpace(s[1]) THEN LStrip(Tail(s)) ELSE s

RECURSIVE RStrip(_)
RStrip(s) == IF s # <<>> /\ IsSpace(s[Len(s)]) THEN RStrip(SubSeq(s, 1, Len(s) - 1)) ELSE s

Strip(s) == RStrip(LStrip(s))

\* str.split() without arguments: the maximal runs of non-space characters
RECURSIVE Split(_)
Split(s) ==
    LET t == LStrip(s)
        i == FirstOf(t, {" "})
    IN  IF t = <<>> THEN <<>>
        ELSE IF i = 0 THEN <<t>>
        ELSE <<SubSeq(t, 1, i - 1)>> \o Split(SubSeq(t, i + 1, Len(t)))

----------------------------------------------------------------------------
\* Floats

Abs(x) == IF x < 0 THEN -x ELSE x

Sign(x) == IF x < 0 THEN -1 ELSE IF x > 0 THEN 1 ELSE 0

RECURSIVE GCD(_, _)
GCD(a, b) == IF b = 0 THEN a ELSE GCD(b, a % b)

\* the rational n/d (d # 0) in lowest terms with a positive denominator
Fin(n, d) ==
    LET g == GCD(Abs(n), Abs(d))
    IN  [k |-> "fin", n |-> Sign(d) * (n \div g), d |-> Abs(d) \div g]

Inf(s) == [k |-> "inf", n |-> s, d |-> 0]
NaN == [k |-> "nan", n |-> 0, d |-> 0]
\* a local that has not been assigned
None == [k |-> "none", n |-> 0, d |-> 0]
Irr == [k |-> "irr", n |-> 0, d |-> 0]
Complex == [k |-> "complex", n |-> 0, d |-> 0]

Zero == Fin(0, 1)
One == Fin(1, 1)

\* x == 0 on floats: NaN and the infinities are not equal to zero
IsZero(x) == x.k = "fin" /\ x.n = 0

\* the sign of a float that is not a NaN
SignOf(x) == Sign(x.n)

FNeg(x) == IF x.k = "fin" THEN Fin(-x.n, x.d) ELSE IF x.k = "inf" THEN Inf(-x.n) ELSE x

\* a + b
FAdd(a, b) ==
    CASE a.k = "nan" \/ b.k = "nan" -> NaN
      [] a.k = "inf" /\ b.k = "inf" -> IF a.n = b.n THEN a ELSE NaN
      [] a.k = "inf" /\ b.k = "fin" -> a
      [] a.k = "fin" /\ b.k = "inf" -> b
      [] a.k = "fin" /\ b.k = "fin" -> Fin(a.n * b.d + b.n * a.d, a.d * b.d)

\* a - b
FSub(a, b) == FAdd(a, FNeg(b))

\* a * b
FMul(a, b) ==
    CASE a.k = "nan" \/ b.k = "nan" -> NaN
      [] a.k = "fin" /\ b.k = "fin" -> Fin(a.n * b.n, a.d * b.d)
      [] a.k = "inf" \/ b.k = "inf" ->
            IF IsZero(a) \/ IsZero(b) THEN NaN ELSE Inf(SignOf(a) * SignOf(b))

\* a / b for b # 0 (float division by zero raises, see divide)
FDiv(a, b) ==
    CASE a.k = "nan" \/ b.k = "nan" -> NaN
      [] a.k = "inf" /\ b.k = "inf" -> NaN
      [] a.k = "inf" /\ b.k = "fin" -> Inf(SignOf(a) * SignOf(b))
      [] a.k = "fin" /\ b.k = "inf" -> Zero
      [] a.k = "fin" /\ b.k = "fin" -> Fin(a.n * b.d, a.d * b.n)

\* a < b on floats that are not NaN
FLess(a, b) ==
    CASE a.k = "inf" -> a.n < 0 /\ ~(b.k = "inf" /\ b.n < 0)
      [] b.k = "inf" -> b.n > 0
      [] a.k = "fin" /\ b.k = "fin" -> a.n * b.d < b.n * a.d

\* b ** e for integers b and e >= 0
RECURSIVE IPow(_, _)
IPow(b, e) == IF e = 0 THEN 1 ELSE b * IPow(b, e - 1)

\* the integer q-th root of n >= 0, or -1 when n is not a perfect q-th power
IRoot(n, q) ==
    IF \E r \in 0..n : IPow(r, q) = n THEN CHOOSE r \in 0..n : IPow(r, q) = n ELSE -1

\* b ** e for finite b # 0 and finite e # 0: exact when the result is
\* rational, a complex number for a negative base with a fractional exponent
FinPow(b, e) ==
    IF e.d = 1
    THEN IF e.n > 0 THEN Fin(IPow(b.n, e.n), IPow(b.d, e.n))
                    ELSE Fin(IPow(b.d, -e.n), IPow(b.n, -e.n))
    ELSE IF b.n < 0 THEN Complex
    ELSE LET rn == IRoot(b.n, e.d)
             rd == IRoot(b.d, e.d)
         IN  IF rn < 0 \/ rd < 0 THEN Irr
             ELSE IF e.n > 0 THEN Fin(IPow(rn, e.n), IPow(rd, e.n))
                             ELSE Fin(IPow(rd, -e.n), IPow(rn, -e.n))

\* float.__pow__ where it returns: every case except a zero base with a
\* negative exponent
FPow(b, e) ==
    CASE IsZero(e) -> One
      [] ~IsZero(e) /\ (b.k = "nan" \/ e.k = "nan") -> IF b = One THEN One ELSE NaN
      [] e.k = "inf" /\ b.k # "nan" ->
            IF b = One \/ b = Fin(-1, 1) THEN One
            ELSE IF (FLess(One, b) \/ FLess(b, Fin(-1, 1))) = (e.n > 0) THEN Inf(1)
            ELSE Zero
      [] e.k = "fin" /\ ~IsZero(e) /\ b.k = "inf" ->
            IF e.n < 0 THEN Zero
            ELSE IF b.n < 0 /\ e.d = 1 /\ e.n % 2 = 1 THEN Inf(-1)
            ELSE Inf(1)
      [] e.k = "fin" /\ ~IsZero(e) /\ IsZero(b) -> Zero
      [] e.k = "fin" /\ ~IsZero(e) /\ b.k = "fin" /\ ~IsZero(b) -> FinPow(b, e)

\* float.__mod__ for b # 0: the remainder has the sign of the divisor
FMod(a, b) ==
    CASE a.k = "nan" \/ b.k = "nan" -> NaN
      [] a.k = "inf" /\ b.k # "nan" -> NaN
      [] a.k = "fin" /\ b.k = "inf" ->
            IF IsZero(a) \/ SignOf(a) = SignOf(b) THEN a ELSE b
      [] a.k = "fin" /\ b.k = "fin" ->
            LET q == Fin(a.n * b.d, a.d * b.n)
            IN  FSub(a, FMul(b, Fin(q.n \div q.d, 1)))

\* round(x) for a finite rational: to the nearest integer, ties to even
Round(x) ==
    LET f == x.n \div x.d
        r == x.n - f * x.d
    IN  IF 2 * r < x.d THEN f
        ELSE IF 2 * r > x.d THEN f + 1
        ELSE IF f % 2 = 0 THEN f ELSE f + 1

----------------------------------------------------------------------------
\* The operation functions.  A call yields a record: raised is "none" and v
\* the value returned, or raised is the exception type and msg its message;
\* steps counts the divisions divide performed.

Return(v) == [raised |-> "none", msg |-> "", v |-> v, steps |-> 0]

Raise(type, text) == [raised |-> type, msg |-> text, v |-> NaN, steps |-> 0]

\* sum(values): the running total starts at 0
RECURSIVE sum(_, _)
sum(values, start) == IF values = <<>> THEN start ELSE sum(Tail(values), FAdd(start, Head(values)))

add(values) == Return(sum(values, Zero))

\* functools.reduce(operator.sub, rest, first)
RECURSIVE reduce_sub(_, _)
reduce_sub(rest, acc) == IF rest = <<>> THEN acc ELSE reduce_sub(Tail(rest), FSub(acc, Head(rest)))

\* subtract folding from the right: a - (b - (c - ...))
RECURSIVE reduce_sub_right(_, _)
reduce_sub_right(rest, first) ==
    IF rest = <<>> THEN first ELSE FSub(first, reduce_sub_right(Tail(rest), Head(rest)))

subtract_right(first, rest) == Return(reduce_sub_right(rest, first))

subtract(first, rest) == Return(reduce_sub(rest, first))

\* functools.reduce(operator.mul, values, 1.0)
RECURSIVE reduce_mul(_, _)
reduce_mul(values, acc) == IF values = <<>> THEN acc ELSE reduce_mul(Tail(values), FMul(acc, Head(values)))

multiply(values) == Return(reduce_mul(values, One))

\* the loop of divide: r == 0 is tested before result /= r
RECURSIVE divide_loop(_, _, _)
divide_loop(rest, acc, n) ==
    IF rest = <<>> THEN [Return(acc) EXCEPT !.steps = n]
    ELSE IF IsZero(Head(rest)) THEN [Raise("ZeroDivisionError", "Division by zero") EXCEPT !.steps = n]
    ELSE divide_loop(Tail(rest), FDiv(acc, Head(rest)), n + 1)

\* divide without the test of the divisor: a division by zero yields an infinity
RECURSIVE divide_unchecked_loop(_, _, _)
divide_unchecked_loop(rest, acc, n) ==
    IF rest = <<>> THEN [Return(acc) EXCEPT !.steps = n]
    ELSE IF IsZero(Head(rest)) THEN divide_unchecked_loop(Tail(rest), IF IsZero(acc) THEN NaN ELSE Inf(1), n + 1)
    ELSE divide_unchecked_loop(Tail(rest), FDiv(acc, Head(rest)), n + 1)

divide_unchecked(first, rest) == divide_unchecked_loop(rest, first, 0)

divide(first, rest) == divide_loop(rest, first, 0)

power(base, exponent) ==
    IF IsZero(base) /\ exponent.k = "fin" /\ exponent.n < 0
    THEN Raise("ZeroDivisionError", "0.0 cannot be raised to a negative power")
    ELSE Return(FPow(base, exponent))

modulo(a, b) ==
    IF IsZero(b) THEN Raise("ZeroDivisionError", "Modulo by zero") ELSE Return(FMod(a, b))

----------------------------------------------------------------------------
\* Conversion of number tokens

IsDigits(s) == s # <<>> /\ \A i \in 1..Len(s) : s[i] \in Digits

RECURSIVE DigitsVal(_, _)
DigitsVal(s, acc) == IF s = <<>> THEN acc ELSE DigitsVal(Tail(s), 10 * acc + DigitVal(Head(s)))

\* the text after an optional sign, and the sign
Unsigned(s) == IF s # <<>> /\ s[1] \in {"-", "+"} THEN Tail(s) ELSE s
SignChar(s) == IF s # <<>> /\ s[1] = "-" THEN -1 ELSE 1

Invalid == [ok |-> FALSE, v |-> NaN]
Valid(v) == [ok |-> TRUE, v |-> v]

\* int(s): an optional sign and one or more digits
ParseInt(s) ==
    IF IsDigits(Unsigned(s)) THEN Valid(Fin(SignChar(s) * DigitsVal(Unsigned(s), 0), 1)) ELSE Invalid

\* the number of decimal digits of m > 0
RECURSIVE NumDigits(_)
NumDigits(m) == IF m < 10 THEN 1 ELSE 1 + NumDigits(m \div 10)

\* m * 10 ** e as a float: beyond the range of a double the literal is an
\* infinity or zero
Scaled(sgn, m, e) ==
    IF m = 0 THEN Zero
    ELSE IF NumDigits(m) + e > 309 THEN Inf(sgn)
    ELSE IF NumDigits(m) + e < -323 THEN Zero
    ELSE IF e >= 0 THEN Fin(sgn * m * IPow(10, e), 1)
    ELSE Fin(sgn * m, IPow(10, -e))

\* float(s): [sign] digits [. [digits]] [e [sign] digits], or [sign] . digits ...
ParseFloat(s) ==
    LET u    == Lower(Unsigned(s))
        ie   == FirstOf(u, {"e"})
        mant == IF ie = 0 THEN u ELSE SubSeq(u, 1, ie - 1)
        ex   == IF ie = 0 THEN <<>> ELSE SubSeq(u, ie + 1, Len(u))
        id   == FirstOf(mant, {"."})
        ip   == IF id = 0 THEN mant ELSE SubSeq(mant, 1, id - 1)
        fp   == IF id = 0 THEN <<>> ELSE SubSeq(mant, id + 1, Len(mant))
        mantOk == /\ ip \o fp # <<>>
                  /\ \A i \in 1..Len(ip) : ip[i] \in Digits
                  /\ \A i \in 1..Len(fp) : fp[i] \in Digits
        exOk == ie = 0 \/ IsDigits(Unsigned(ex))
        e10  == IF ie = 0 THEN 0 ELSE SignChar(ex) * DigitsVal(Unsigned(ex), 0)
    IN  IF mantOk /\ exOk
        THEN Valid(Scaled(SignChar(s), DigitsVal(ip \o fp, 0), e10 - Len(fp)))
        ELSE Invalid

\* the body of the loop of _to_floats for one token
ToFloat(s) == IF Contains(s, ".") \/ Contains(Lower(s), "e") THEN ParseFloat(s) ELSE ParseInt(s)

\* _to_floats(strs): the floats, or the ValueError naming the first token
\* that is not a number
RECURSIVE to_floats_loop(_, _)
to_floats_loop(strs, acc) ==
    IF strs = <<>> THEN [raised |-> "none", tok |-> <<>>, v |-> acc]
    ELSE IF ~ToFloat(Head(strs)).ok THEN [raised |-> "ValueError", tok |-> Head(strs), v |-> <<>>]
    ELSE to_floats_loop(Tail(strs), Append(acc, ToFloat(Head(strs)).v))

to_floats(strs) == to_floats_loop(strs, <<>>)

----------------------------------------------------------------------------
\* The registry and the inputs

K_add == <<"a", "d", "d">>
K_sub == <<"s", "u", "b">>
K_mul == <<"m", "u", "l">>
K_div == <<"d", "i", "v">>
K_pow == <<"p", "o", "w">>
K_mod == <<"m", "o", "d">>

\* OP_MAP as the module defines it
Registry ==
    (K_add :> [func |-> "add", desc |-> "Add all numbers"])
    @@ (K_sub :> [func |-> "subtract", desc |-> "Subtract subsequent numbers from the first"])
    @@ (K_mul :> [func |-> "multiply", desc |-> "Multiply all numbers"])
    @@ (K_div :> [func |-> "divide", desc |-> "Sequentially divide the first by the rest"])
    @@ (K_pow :> [func |-> "power", desc |-> "Raise first number to the power of the second"])
    @@ (K_mod :> [func |-> "modulo", desc |-> "Modulo (remainder) of two numbers"])

\* The number tokens a user gives: 0, 1, 2, -1, 0.5, 1e999 and x
NumberTokens ==
    { <<"0">>, <<"1">>, <<"2">>, <<"-", "1">>, <<"0", ".", "5">>,
      <<"1", "e", "9", "9", "9">>, <<"x">> }

\* the lists of at most n number tokens
RECURSIVE TokenLists(_)
TokenLists(n) ==
    IF n = 0 THEN {<<>>}
    ELSE LET shorter == TokenLists(n - 1)
         IN  shorter \cup {Append(l, t) : l \in {x \in shorter : Len(x) = n - 1}, t \in NumberTokens}

\* The operation tokens a user gives: the six keys, and foo and ADD
OperationTokens == DOMAIN Registry \cup {<<"f", "o", "o">>, <<"A", "D", "D">>}

\* The command lines: none, or an operation token and a list of number tokens
CommandLines == {<<>>} \cup {<<o>> \o l : o \in OperationTokens, l \in TokenLists(MaxNumbers)}

\* the tokens joined by sep
RECURSIVE Join(_, _)
Join(l, sep) ==
    IF l = <<>> THEN <<>>
    ELSE IF Len(l) = 1 THEN l[1]
    ELSE l[1] \o sep \o Join(Tail(l), sep)

\* What an input() yields: a line, or the exception it raises
Line(text) == [kind |-> "line", text |-> text]
Signals == {[kind |-> "EOFError", text |-> <<>>], [kind |-> "KeyboardInterrupt", text |-> <<>>]}

\* The answers to the operation prompt: a token, alone or between blanks, or
\* an empty line
OperationInputs ==
    Signals \cup {Line(o) : o \in OperationTokens}
            \cup {Line(<<" ">> \o o \o <<" ">>) : o \in OperationTokens}
            \cup {Line(<<>>)}

\* The answers to the numbers prompt: number tokens separated by one blank,
\* or by two and between blanks
NumbersInputs ==
    Signals \cup {Line(Join(l, <<" ">>)) : l \in TokenLists(MaxNumbers)}
            \cup {Line(<<" ">> \o Join(l, <<" ", " ">>) \o <<" ">>) : l \in TokenLists(MaxNumbers)}

----------------------------------------------------------------------------
\* main

NoCall == [called |-> FALSE, entered |-> FALSE, func |-> "", raised |-> "none", msg |-> "", steps |-> 0]

NoLine == [form |-> "none", v |-> None]

Init ==
    /\ argv \in CommandLines
    /\ OP_MAP = Registry
    /\ pc = "parse_args"
    /\ op = <<>>
    /\ nums = <<>>
    /\ result = None
    /\ out = <<>>
    /\ err = <<>>
    /\ errTok = <<>>
    /\ printed = NoLine
    /\ call = NoCall
    /\ signal = "none"
    /\ exc = "none"
    /\ status = -1

\* a test of the token that only rejects the empty one
IsOperation_nonempty(o) == o # <<>>

\* op in OP_MAP
IsOperation(o) == o \in DOMAIN OP_MAP

\* return code from main: the process exits with it
Exit(code) == pc' = "done" /\ status' = code

\* an exception leaves main: the interpreter writes the traceback to standard
\* error and the process exits with status 1
Escape(type) == pc' = "done" /\ status' = 1 /\ exc' = type /\ err' = Append(err, "Traceback")

\* parse_args(argv): operation is optional and one of OP_MAP's keys, numbers
\* is the rest; argparse reports any other operation and exits with status 2
ParseArgs ==
    /\ pc = "parse_args"
    /\ IF argv = <<>>
       THEN pc' = "interactive" /\ UNCHANGED <<err, status>>
       ELSE IF ~IsOperation(argv[1])
       THEN Exit(2) /\ err' = Append(err, "usage")
       ELSE pc' = "argument_mode" /\ UNCHANGED <<err, status>>
    /\ UNCHANGED <<argv, OP_MAP, op, nums, result, out, errTok, printed, call, signal, exc>>

\* the else branch of main: op and numbers come from the command line
ArgumentMode ==
    /\ pc = "argument_mode"
    /\ op' = argv[1]
    /\ LET numbers == Tail(argv)
           conv == to_floats(numbers)
       IN  IF numbers = <<>>
           THEN Exit(2) /\ err' = Append(err, "MissingNumbers") /\ UNCHANGED <<nums, errTok>>
           ELSE IF conv.raised = "ValueError"
           THEN Exit(2) /\ err' = Append(err, "InvalidNumber") /\ errTok' = conv.tok /\ UNCHANGED nums
           ELSE pc' = "dispatch" /\ nums' = conv.v /\ UNCHANGED <<err, errTok, status>>
    /\ UNCHANGED <<argv, OP_MAP, result, out, printed, call, signal, exc>>

\* interactive mode: the banner and the registry listing
PrintRegistry ==
    /\ pc = "interactive"
    /\ out' = out \o <<"banner", "available">> \o [i \in 1..Cardinality(DOMAIN OP_MAP) |-> "registry"]
    /\ pc' = "read_operation"
    /\ UNCHANGED <<argv, OP_MAP, op, nums, result, err, errTok, printed, call, signal, exc, status>>

\* a handler that returns the shell's status for an interrupted process
Interrupted_130(shown, type) == signal' = type /\ out' = Append(shown, "blank") /\ pc' = "done" /\ status' = 130

\* except (KeyboardInterrupt, EOFError): print() and return 0
Interrupted(shown, type) == signal' = type /\ out' = Append(shown, "blank") /\ Exit(0)

\* op = input("Operation: ").strip(), and the test op not in OP_MAP
ReadOperation ==
    /\ pc = "read_operation"
    /\ \E in \in OperationInputs :
          LET shown == Append(out, "Operation: ")
          IN  IF in.kind # "line"
              THEN Interrupted(shown, in.kind) /\ UNCHANGED op
              ELSE /\ op' = Strip(in.text)
                   /\ signal' = signal
                   /\ IF ~IsOperation(Strip(in.text))
                      THEN out' = Append(shown, "Unknown operation") /\ Exit(2)
                      ELSE out' = shown /\ pc' = "read_numbers" /\ UNCHANGED status
    /\ UNCHANGED <<argv, OP_MAP, nums, result, err, errTok, printed, call, exc>>

\* raw = input("Enter numbers separated by space: ").strip().split() and
\* nums = _to_floats(raw); the handler catches no ValueError
ReadNumbers ==
    /\ pc = "read_numbers"
    /\ \E in \in NumbersInputs :
          LET shown == Append(out, "Enter numbers separated by space: ")
              conv == to_floats(Split(Strip(in.text)))
          IN  IF in.kind # "line"
              THEN Interrupted(shown, in.kind) /\ UNCHANGED <<nums, err, errTok, exc>>
              ELSE /\ out' = shown
                   /\ signal' = signal
                   /\ IF conv.raised = "ValueError"
                      THEN Escape("ValueError") /\ errTok' = conv.tok /\ UNCHANGED nums
                      ELSE pc' = "dispatch" /\ nums' = conv.v /\ UNCHANGED <<err, errTok, exc, status>>
    /\ UNCHANGED <<argv, OP_MAP, op, result, printed, call>>

\* func(*nums): binding the arguments to the function's parameters raises
\* TypeError before the body runs when their number does not fit
Apply(func, args) ==
    CASE func = "add" -> add(args)
      [] func = "multiply" -> multiply(args)
      [] func = "subtract" ->
            IF Len(args) < 1 THEN Raise("TypeError", "missing argument") ELSE subtract(Head(args), Tail(args))
      [] func = "divide" ->
            IF Len(args) < 1 THEN Raise("TypeError", "missing argument") ELSE divide(Head(args), Tail(args))
      [] func = "power" ->
            IF Len(args) # 2 THEN Raise("TypeError", "wrong number of arguments") ELSE power(args[1], args[2])
      [] func = "modulo" ->
            IF Len(args) # 2 THEN Raise("TypeError", "wrong number of arguments") ELSE modulo(args[1], args[2])

\* the arity tests of main, in their order: TRUE when main reports and returns 2
ArityViolated(o, n) ==
    \/ o \in {K_pow, K_mod} /\ n # 2
    \/ o = K_sub /\ n < 1
    \/ o \in {K_add, K_mul} /\ n < 1

\* func = OP_MAP[op][0], the arity tests, result = func(*nums) and the two
\* except clauses
Dispatch ==
    /\ pc = "dispatch"
    /\ LET func == OP_MAP[op].func
           r == Apply(func, nums)
       IN  IF ArityViolated(op, Len(nums))
           THEN Exit(2) /\ err' = Append(err, "ArityError") /\ UNCHANGED <<result, call>>
           ELSE /\ call' = [called |-> TRUE, entered |-> r.raised # "TypeError", func |-> func,
                            raised |-> r.raised, msg |-> r.msg, steps |-> r.steps]
                /\ IF r.raised = "none"
                   THEN pc' = "format" /\ result' = r.v /\ UNCHANGED <<err, status>>
                   ELSE IF r.raised = "ZeroDivisionError"
                   THEN Exit(3) /\ err' = Append(err, "ZeroDivisionError") /\ UNCHANGED result
                   ELSE Exit(4) /\ err' = Append(err, "ComputationError") /\ UNCHANGED result
    /\ UNCHANGED <<argv, OP_MAP, op, nums, out, errTok, printed, signal, exc>>

\* abs(result - round(result)) < 1e-12 for a finite rational: with r the
\* distance in units of 1/d, r * 10^12 < d, computed without the product
IsIntegral(x) ==
    LET r == Abs(x.n - Round(x) * x.d)
    IN  r <= ((x.d - 1) \div 1000000) \div 1000000

\* what round(result) raises, "none" when it returns
RoundRaises(x) ==
    CASE x.k = "inf" -> "OverflowError"
      [] x.k = "nan" -> "ValueError"
      [] x.k = "complex" -> "TypeError"
      [] x.k \in {"fin", "irr"} -> "none"

\* the line main prints for a result round() accepts
Formatted(x) ==
    IF x.k = "fin" /\ IsIntegral(x) THEN [form |-> "int", v |-> Fin(Round(x), 1)]
    ELSE [form |-> "float", v |-> x]

\* the last block with the value printed before it is rounded
FormatResult_print_first ==
    /\ pc = "format"
    /\ printed' = [form |-> "float", v |-> result]
    /\ out' = Append(out, "result")
    /\ IF RoundRaises(result) # "none"
       THEN Escape(RoundRaises(result))
       ELSE Exit(0) /\ UNCHANGED <<err, exc>>
    /\ UNCHANGED <<argv, OP_MAP, op, nums, result, errTok, call, signal>>

\* the last block of main: the result line, as an int when integral
FormatResult ==
    /\ pc = "format"
    /\ IF RoundRaises(result) # "none"
       THEN Escape(RoundRaises(result)) /\ UNCHANGED <<out, printed>>
       ELSE /\ printed' = Formatted(result)
            /\ out' = Append(out, "result")
            /\ Exit(0)
            /\ UNCHANGED <<err, exc>>
    /\ UNCHANGED <<argv, OP_MAP, op, nums, result, errTok, call, signal>>

Next ==
    \/ ParseArgs
    \/ ArgumentMode
    \/ PrintRegistry
    \/ ReadOperation
    \/ ReadNumbers
    \/ Dispatch
    \/ FormatResult

Spec == Init /\ [][Next]_vars

----------------------------------------------------------------------------
\* Properties

Interactive == argv = <<>>

\* the number of entries of s that are in set
RECURSIVE Count(_, _)
Count(s, set) == IF s = <<>> THEN 0 ELSE (IF Head(s) \in set THEN 1 ELSE 0) + Count(Tail(s), set)

\* result lines written, and errors reported on either stream
Results == Count(out, {"result"})
Errors == Len(err) + Count(out, {"Unknown operation"})

\* the arity rule of an operation: exactly two numbers for pow and mod, at
\* least one for the others
ArityRule(o, n) == IF o \in {K_pow, K_mod} THEN n = 2 ELSE n >= 1

\* C1: in both modes, when a number token cannot be converted main reports
\* an invalid-number error naming the token and returns 2, and no operation
\* is executed.
C1_InvalidNumber ==
    /\ (pc = "done" /\ errTok # <<>>) =>
           (status = 2 /\ exc = "none" /\ err = <<"InvalidNumber">> /\ ~call.called /\ ~ToFloat(errTok).ok)
    /\ (pc = "done" /\ ~Interactive /\ IsOperation(argv[1])
           /\ \E i \in 2..Len(argv) : ~ToFloat(argv[i]).ok) => errTok # <<>>

\* C2: for every operation and in both modes, when the number count breaks
\* the operation's arity rule, main reports an arity error and returns 2
\* without invoking the operation function.
C2_ArityError ==
    [][(pc = "dispatch" /\ ~ArityRule(op, Len(nums))) =>
          (pc' = "done" /\ status' = 2 /\ err' = <<"ArityError">> /\ ~call'.called)]_vars

\* C3: add, subtract, multiply and power never fail because an operand is
\* zero: with the arity rule met and a zero among the operands the
\* operation returns a number and main exits with 0.
C3_NoFailureOnZero ==
    (/\ pc = "done"
     /\ call.called
     /\ call.func \in {"add", "subtract", "multiply", "power"}
     /\ \E i \in 1..Len(nums) : IsZero(nums[i]))
    => (call.raised = "none" /\ result # None /\ status = 0)

\* the index of the first zero of s
FirstZero(s) == CHOOSE i \in 1..Len(s) : IsZero(s[i]) /\ \A j \in 1..(i - 1) : ~IsZero(s[j])

\* C4: divide fails with "Division by zero" whenever a divisor is zero, at
\* whatever position and before dividing by it (no infinity or NaN is
\* returned), modulo fails with "Modulo by zero" whenever the modulus is
\* zero, and main returns 3 in both cases; a zero first value of divide
\* with non-zero divisors does not fail.
C4_ZeroDivisor ==
    /\ (call.called /\ call.func = "divide" /\ \E i \in 2..Len(nums) : IsZero(nums[i])) =>
           /\ call.raised = "ZeroDivisionError" /\ call.msg = "Division by zero"
           /\ call.steps = FirstZero(Tail(nums)) - 1
           /\ result = None
           /\ pc = "done" /\ status = 3 /\ printed = NoLine
    /\ (call.called /\ call.func = "modulo" /\ Len(nums) = 2 /\ IsZero(nums[2])) =>
           /\ call.raised = "ZeroDivisionError" /\ call.msg = "Modulo by zero"
           /\ result = None
           /\ pc = "done" /\ status = 3 /\ printed = NoLine
    /\ (call.called /\ call.func = "divide" /\ Len(nums) >= 1 /\ IsZero(nums[1])
           /\ \A i \in 2..Len(nums) : ~IsZero(nums[i])) =>
           /\ call.raised = "none"
           /\ pc = "done" => status = 0

\* a zero divisor after a non-zero one, and a zero first value with a
\* non-zero divisor
C4_Witness ==
    /\ pc = "done" /\ call.func = "divide" /\ Len(nums) = 3
    /\ ~IsZero(nums[2]) /\ IsZero(nums[3]) /\ call.steps = 1 /\ status = 3

\* C5 as stated: every invocation ends with exactly one result line or
\* exactly one error, never both and never neither.
C5_ExactlyOneOutcome ==
    pc = "done" => (Results = 1 /\ Errors = 0) \/ (Results = 0 /\ Errors = 1)

\* C5 amended: nothing is reported before main ends, and it ends with one
\* result line and exit status 0, or with one error report and a non-zero
\* exit status, or, when a prompt of interactive mode was ended by an
\* interrupt or end-of-input, with neither and exit status 0.
C5_OneOutcomeOrInterrupted ==
    /\ pc # "done" => (Results = 0 /\ Errors = 0)
    /\ pc = "done" =>
          \/ Results = 1 /\ Errors = 0 /\ status = 0 /\ signal = "none"
          \/ Results = 0 /\ Errors = 1 /\ status # 0 /\ signal = "none"
          \/ Results = 0 /\ Errors = 0 /\ status = 0 /\ signal # "none" /\ Interactive

\* an interrupt at a prompt: neither a result nor an error
C5_Witness == pc = "done" /\ signal = "KeyboardInterrupt" /\ Results = 0 /\ Errors = 0

\* C6: every error message is written to standard error; standard output
\* only carries the result, the registry listing and the prompts.
C6_ErrorsOnStderr ==
    /\ \A i \in 1..Len(out) :
          out[i] \in {"banner", "available", "registry", "Operation: ",
                      "Enter numbers separated by space: ", "blank", "result"}
    /\ (pc = "done" /\ status # 0) => Len(err) = 1

\* the left folds, written from the last element down
RECURSIVE FoldAdd(_)
FoldAdd(s) == IF Len(s) = 1 THEN s[1] ELSE FAdd(FoldAdd(SubSeq(s, 1, Len(s) - 1)), s[Len(s)])
RECURSIVE FoldMul(_)
FoldMul(s) == IF Len(s) = 1 THEN s[1] ELSE FMul(FoldMul(SubSeq(s, 1, Len(s) - 1)), s[Len(s)])
RECURSIVE FoldSub(_)
FoldSub(s) == IF Len(s) = 1 THEN s[1] ELSE FSub(FoldSub(SubSeq(s, 1, Len(s) - 1)), s[Len(s)])
RECURSIVE FoldDiv(_)
FoldDiv(s) == IF Len(s) = 1 THEN s[1] ELSE FDiv(FoldDiv(SubSeq(s, 1, Len(s) - 1)), s[Len(s)])

\* C7: each variadic operation is the left fold of its binary operator over
\* the arguments in order, and returns a single argument unchanged.
C7_LeftFold ==
    (call.called /\ call.raised = "none" /\ Len(nums) >= 1) =>
        /\ call.func = "add" => result = FoldAdd(nums)
        /\ call.func = "multiply" => result = FoldMul(nums)
        /\ call.func = "subtract" => result = FoldSub(nums)
        /\ call.func = "divide" => result = FoldDiv(nums)
        /\ (Len(nums) = 1 /\ call.func \in {"add", "multiply", "subtract", "divide"}) => result = nums[1]

\* (a - b) - c where it differs from a - (b - c)
C7_Witness ==
    /\ pc = "done" /\ call.func = "subtract" /\ call.raised = "none"
    /\ Len(nums) = 3 /\ ~IsZero(nums[3]) /\ nums[3].k = "fin" /\ result.k = "fin"

\* C8: an interrupt or end-of-input at either prompt ends main with exit
\* status 0, no error reported and no operation executed.
C8_InterruptExitsZero ==
    signal # "none" =>
        /\ pc = "done" /\ status = 0
        /\ Errors = 0 /\ exc = "none"
        /\ ~call.called /\ Results = 0

\* end-of-input at the numbers prompt
C8_Witness ==
    /\ signal = "EOFError" /\ pc = "done"
    /\ Count(out, {"Enter numbers separated by space: "}) = 1

\* abs(x - z) < 1e-12 for some integer z
NearInteger(x) ==
    /\ x.k = "fin"
    /\ \E z \in {x.n \div x.d, x.n \div x.d + 1} :
          Abs(x.n - z * x.d) <= ((x.d - 1) \div 1000000) \div 1000000

\* C9: every computed result is printed, as an integer when it is within
\* 1e-12 of an integer and as the float otherwise; formatting never fails.
C9_Formatting ==
    (pc = "done" /\ call.called /\ call.raised = "none") =>
        /\ exc = "none" /\ status = 0 /\ Results = 1
        /\ printed.form = (IF NearInteger(result) THEN "int" ELSE "float")

\* C10: whenever main reaches the registry lookup the operation token is a
\* key of the registry; in interactive mode an unknown token makes main
\* return 2 before the numbers prompt, in argument mode the parser admits
\* only the keys, and the registry is never changed.
C10_DispatchKnownOperation ==
    /\ OP_MAP = Registry
    /\ (pc \in {"dispatch", "format"} \/ call.called) => op \in DOMAIN Registry
    /\ (Interactive /\ signal = "none" /\ op \notin DOMAIN Registry
           /\ pc \notin {"parse_args", "interactive", "read_operation"}) =>
           /\ pc = "done" /\ status = 2
           /\ Count(out, {"Enter numbers separated by space: "}) = 0
           /\ ~call.called
    /\ (~Interactive /\ argv[1] \notin DOMAIN Registry) =>
           /\ pc \in {"parse_args", "done"}
           /\ pc = "done" => status = 2
           /\ ~call.called

\* an unknown token typed at the operation prompt
C10_Witness ==
    /\ Interactive /\ pc = "done" /\ op = <<"f", "o", "o">> /\ status = 2

====
